---------------------------- MODULE Spec2Model ----------------------------
(***************************************************************************)
(* Model of the weather command-line client (src/main.py).                 *)
(*                                                                         *)
(* Text is modelled as a sequence of one-character strings, so that        *)
(* joining, URL-encoding, capitalising and centring are computed           *)
(* character by character.  Characters outside ASCII are written by their  *)
(* code point ("U+00E3" is a-tilde, "U+1F4A5" the collision symbol).       *)
(***************************************************************************)
EXTENDS Integers, Sequences, FiniteSets, TLC

VARIABLES
    pc,             \* position of the process in __main__ / get_weather_data
    argv,           \* process arguments (sys.argv[1:])
    secrets,        \* contents of secrets.ini: <<>> = no key, else <<key>>
    user_args,      \* result of read_user_cli_args(): [city, imperial]
    query_url,      \* result of build_weather_query()
    requests,       \* URLs for which an HTTP GET has been sent, in order
    response,       \* the local variable `response` of get_weather_data
    replies,        \* what the server answered to each request, in order
    data,           \* the local `data`: what response.read() returned
    weather_data,   \* result of get_weather_data()
    weather_id,     \* argument of _select_weather_display_params
    display_params, \* its result, <<symbol, colour>> (<<>> = not called yet)
    stdout,         \* characters written to standard output, in order
    stderr,         \* messages written to standard error, in order
    exit_code       \* exit status once pc = "exited"

vars == <<pc, argv, secrets, user_args, query_url, requests, response,
          replies, data, weather_data, weather_id, display_params, stdout,
          stderr, exit_code>>

----------------------------------------------------------------------------
(* Bounds of the model *)

MaxCode == 1000     \* condition codes range over -MaxCode..MaxCode
MaxArgs == 3        \* longest argv explored by the program run
MaxTokens == 2      \* longest city token list given to build_weather_query
MaxTokLen == 1      \* longest city token given to build_weather_query

----------------------------------------------------------------------------
(* Characters *)

AsciiChars ==
    <<" ", "!", "U+0022", "#", "$", "%", "&", "'", "(", ")", "*", "+", ",",
      "-",
      ".", "/", "0", "1", "2", "3", "4", "5", "6", "7", "8", "9", ":", ";",
      "<", "=", ">", "?", "@", "A", "B", "C", "D", "E", "F", "G", "H", "I",
      "J", "K", "L", "M", "N", "O", "P", "Q", "R", "S", "T", "U", "V", "W",
      "X", "Y", "Z", "[", "U+005C", "]", "^", "_", "U+0060", "a", "b", "c",
      "d", "e",
      "f", "g", "h", "i", "j", "k", "l", "m", "n", "o", "p", "q", "r", "s",
      "t", "u", "v", "w", "x", "y", "z", "{", "|", "}", "~">>

\* Characters outside ASCII that the model uses, with their code points.
WideChars == <<"U+00E3", "U+00B0", "U+FFFD">>
WideCodes == <<227, 176, 65533>>

IsAscii(c) == \E i \in 1..Len(AsciiChars) : AsciiChars[i] = c

\* ord(c)
Ord(c) ==
    IF IsAscii(c)
    THEN 31 + (CHOOSE i \in 1..Len(AsciiChars) : AsciiChars[i] = c)
    ELSE WideCodes[CHOOSE i \in 1..Len(WideChars) : WideChars[i] = c]

\* chr(n); code points the model has no character for become U+FFFD
Chr(n) ==
    IF n \in 32..126 THEN AsciiChars[n - 31]
    ELSE IF \E i \in 1..Len(WideCodes) : WideCodes[i] = n
         THEN WideChars[CHOOSE i \in 1..Len(WideCodes) : WideCodes[i] = n]
         ELSE "U+FFFD"

\* str(n) for an integer n
RECURSIVE NatStr(_)
NatStr(n) ==
    IF n < 10 THEN <<Chr(48 + n)>>
    ELSE NatStr(n \div 10) \o <<Chr(48 + (n % 10))>>

IntStr(n) == IF n < 0 THEN <<"-">> \o NatStr(0 - n) ELSE NatStr(n)

----------------------------------------------------------------------------
(* style module: escape-code constants and the column width.  Each colour  *)
(* constant is one escape sequence, written to stdout as one character.    *)

PADDING == 20
RED == "ESC[RED]"
BLUE == "ESC[BLUE]"
CYAN == "ESC[CYAN]"
YELLOW == "ESC[YELLOW]"
WHITE == "ESC[WHITE]"
REVERSE == "ESC[REVERSE]"
RESET == "ESC[RESET]"

StyleCodes == {RED, BLUE, CYAN, YELLOW, WHITE, REVERSE, RESET}

\* style.change_color(color): print(color, end="")
change_color(out, color) == Append(out, color)

----------------------------------------------------------------------------
(* Weather condition codes, main.py lines 12-18 *)

THUNDERSTORM == 200..299
DRIZZLE == 300..399
RAIN == 500..599
SNOW == 600..699
ATMOSPHERE == 700..799
CLEAR == 800..800
CloudyOverlappingClear == 800..899
CLOUDY == 801..899

\* _select_weather_display_params(weather_id)
_select_weather_display_params(id) ==
    IF id \in THUNDERSTORM THEN <<"U+1F4A5", RED>>
    ELSE IF id \in DRIZZLE THEN <<"U+1F4A7", CYAN>>
    ELSE IF id \in RAIN THEN <<"U+1F4A6", BLUE>>
    ELSE IF id \in SNOW THEN <<"U+26C4", WHITE>>
    ELSE IF id \in ATMOSPHERE THEN <<"U+1F300", BLUE>>
    ELSE IF id \in CLEAR THEN <<"U+1F506", YELLOW>>
    ELSE IF id \in CLOUDY THEN <<"U+1F4A8", WHITE>>
    ELSE <<"U+1F308", RESET>>

----------------------------------------------------------------------------
(* URL encoding: urllib.parse.quote_plus as called at main.py line 48 *)

HexDigits == <<"0", "1", "2", "3", "4", "5", "6", "7", "8", "9",
               "A", "B", "C", "D", "E", "F">>

\* the UTF-8 encoding of a code point, as a sequence of byte values
Utf8Encode(cp) ==
    IF cp < 128 THEN <<cp>>
    ELSE IF cp < 2048 THEN <<192 + (cp \div 64), 128 + (cp % 64)>>
    ELSE <<224 + (cp \div 4096), 128 + ((cp \div 64) % 64), 128 + (cp % 64)>>

\* "%XX" for one byte
PercentByte(b) == <<"%", HexDigits[(b \div 16) + 1], HexDigits[(b % 16) + 1]>>

RECURSIVE PercentBytes(_)
PercentBytes(bytes) ==
    IF bytes = <<>> THEN <<>>
    ELSE PercentByte(Head(bytes)) \o PercentBytes(Tail(bytes))

\* characters quote() never escapes: letters, digits and "_.-~"
IsAlwaysSafe(c) ==
    /\ IsAscii(c)
    /\ \/ Ord(c) \in 48..57
       \/ Ord(c) \in 65..90
       \/ Ord(c) \in 97..122
       \/ c \in {"_", ".", "-", "~"}

RECURSIVE quote(_, _)
\* urllib.parse.quote(string, safe)
quote(string, safe) ==
    IF string = <<>> THEN <<>>
    ELSE LET c == Head(string) IN
         (IF IsAlwaysSafe(c) \/ c \in safe
          THEN <<c>>
          ELSE PercentBytes(Utf8Encode(Ord(c)))) \o quote(Tail(string), safe)

\* str.replace(old, new) for a one-character old
Replace(string, old, new) ==
    [i \in 1..Len(string) |-> IF string[i] = old THEN new ELSE string[i]]

HasChar(string, c) == \E i \in 1..Len(string) : string[i] = c

\* a quote_plus that leaves the space to be escaped like any other character
\* but forgets the reserved characters "&" and "+"
QuotePlusKeepingReserved(string) ==
    Replace(quote(string, {" ", "&", "+"}), " ", "+")

\* urllib.parse.quote_plus(string), safe = ''
quote_plus(string) ==
    IF ~HasChar(string, " ") THEN quote(string, {})
    ELSE Replace(quote(string, {" "}), " ", "+")

RECURSIVE JoinSpace(_)
\* " ".join(city_input)
JoinSpace(city_input) ==
    IF city_input = <<>> THEN <<>>
    ELSE IF Len(city_input) = 1 THEN Head(city_input)
    ELSE Head(city_input) \o <<" ">> \o JoinSpace(Tail(city_input))

BASE_WEATHER_API_URL ==
    <<"h", "t", "t", "p", ":", "/", "/", "a", "p", "i", ".", "o", "p", "e",
      "n", "w", "e", "a", "t", "h", "e", "r", "m", "a", "p", ".", "o", "r",
      "g", "/", "d", "a", "t", "a", "/", "2", ".", "5", "/", "w", "e", "a",
      "t", "h", "e", "r">>

Metric == <<"m", "e", "t", "r", "i", "c">>
Imperial == <<"i", "m", "p", "e", "r", "i", "a", "l">>

\* a query builder that puts units before q
BuildUnitsFirst(city_input, imperial, api_key) ==
    BASE_WEATHER_API_URL
        \o <<"?", "u", "n", "i", "t", "s", "=">>
        \o (IF imperial THEN Imperial ELSE Metric)
        \o <<"&", "q", "=">> \o quote_plus(JoinSpace(city_input))
        \o <<"&", "a", "p", "p", "i", "d", "=">> \o api_key

\* build_weather_query(city_input, imperial), given the key _get_api_key()
\* returned
build_weather_query(city_input, imperial, api_key) ==
    LET city_name == JoinSpace(city_input)
        url_encoded_city_name == quote_plus(city_name)
        units == IF imperial THEN Imperial ELSE Metric
    IN  BASE_WEATHER_API_URL
            \o <<"?", "q", "=">> \o url_encoded_city_name
            \o <<"&", "u", "n", "i", "t", "s", "=">> \o units
            \o <<"&", "a", "p", "p", "i", "d", "=">> \o api_key

----------------------------------------------------------------------------
(* Standard query-string decoding (urlsplit, parse_qsl, unquote_plus), the *)
(* reader of the URLs that build_weather_query writes.                     *)

\* position of the first c in string, 0 if there is none
IndexOf(string, c) ==
    IF HasChar(string, c)
    THEN CHOOSE i \in 1..Len(string) :
            /\ string[i] = c
            /\ \A j \in 1..(i - 1) : string[j] # c
    ELSE 0

\* the part of string before the first c (all of it if there is none)
Before(string, c) ==
    IF HasChar(string, c) THEN SubSeq(string, 1, IndexOf(string, c) - 1)
    ELSE string

\* the part of string after the first c (empty if there is none)
After(string, c) ==
    IF HasChar(string, c)
    THEN SubSeq(string, IndexOf(string, c) + 1, Len(string))
    ELSE <<>>

RECURSIVE SplitOn(_, _)
\* string.split(c)
SplitOn(string, c) ==
    IF HasChar(string, c)
    THEN <<Before(string, c)>> \o SplitOn(After(string, c), c)
    ELSE <<string>>

IsHex(c) == \E i \in 1..16 : HexDigits[i] = c
HexVal(c) == (CHOOSE i \in 1..16 : HexDigits[i] = c) - 1

RECURSIVE PercentDecode(_)
\* unquote_to_bytes: "%XX" becomes one byte, anything else its UTF-8 bytes
PercentDecode(string) ==
    IF string = <<>> THEN <<>>
    ELSE IF /\ Head(string) = "%"
            /\ Len(string) >= 3
            /\ IsHex(string[2])
            /\ IsHex(string[3])
         THEN <<16 * HexVal(string[2]) + HexVal(string[3])>>
                  \o PercentDecode(SubSeq(string, 4, Len(string)))
         ELSE Utf8Encode(Ord(Head(string))) \o PercentDecode(Tail(string))

IsCont(bytes, i) == Len(bytes) >= i /\ bytes[i] \in 128..191

RECURSIVE Utf8Decode(_)
\* bytes.decode("utf-8", errors="replace")
Utf8Decode(bytes) ==
    IF bytes = <<>> THEN <<>>
    ELSE LET b == Head(bytes) IN
         IF b < 128 THEN <<Chr(b)>> \o Utf8Decode(Tail(bytes))
         ELSE IF b \in 194..223 /\ IsCont(bytes, 2)
         THEN <<Chr((b - 192) * 64 + (bytes[2] - 128))>>
                  \o Utf8Decode(SubSeq(bytes, 3, Len(bytes)))
         ELSE IF b \in 224..239 /\ IsCont(bytes, 2) /\ IsCont(bytes, 3)
         THEN <<Chr((b - 224) * 4096 + (bytes[2] - 128) * 64
                        + (bytes[3] - 128))>>
                  \o Utf8Decode(SubSeq(bytes, 4, Len(bytes)))
         ELSE <<"U+FFFD">> \o Utf8Decode(Tail(bytes))

\* urllib.parse.unquote_plus(string)
unquote_plus(string) == Utf8Decode(PercentDecode(Replace(string, "+", " ")))

\* urlsplit(url).query: after the first "?", before the first "#"
QueryOf(url) == After(Before(url, "#"), "?")

\* urlsplit(url) without query and fragment
EndpointOf(url) == Before(Before(url, "#"), "?")

\* parse_qsl(query, keep_blank_values=True): <<name, value>> pairs in order
parse_qsl(query) ==
    LET fields == SplitOn(query, "&")
    IN  [i \in 1..Len(fields) |->
            <<unquote_plus(Before(fields[i], "=")),
              unquote_plus(After(fields[i], "="))>>]

----------------------------------------------------------------------------
(* Command line: the parser built by read_user_cli_args, main.py 33-39 *)

FlagShort == <<"-", "i">>
FlagLong == <<"-", "-", "i", "m", "p", "e", "r", "i", "a", "l">>

\* an argument that the parser takes for the option -i / --imperial
IsFlag(arg) == arg \in {FlagShort, FlagLong}

\* index of the first positional argument, 0 if there is none
FirstPositional(args) ==
    IF \E i \in 1..Len(args) : ~IsFlag(args[i])
    THEN CHOOSE i \in 1..Len(args) :
            /\ ~IsFlag(args[i])
            /\ \A j \in 1..(i - 1) : IsFlag(args[j])
    ELSE 0

\* index of the last argument of the run of positionals that starts at first
RunEnd(args, first) ==
    CHOOSE e \in first..Len(args) :
        /\ \A j \in first..e : ~IsFlag(args[j])
        /\ (e = Len(args) \/ IsFlag(args[e + 1]))

\* parser.parse_args(): city (nargs="+") takes the first run of adjacent
\* positionals, a positional left over after it is an unrecognized argument,
\* and no positional at all is a missing required argument
ParseArgs(args) ==
    LET first == FirstPositional(args) IN
    IF first = 0
    THEN [ok |-> FALSE, city |-> <<>>, imperial |-> FALSE]
    ELSE IF \E j \in (RunEnd(args, first) + 1)..Len(args) : ~IsFlag(args[j])
    THEN [ok |-> FALSE, city |-> <<>>, imperial |-> FALSE]
    ELSE [ok |-> TRUE,
          city |-> SubSeq(args, first, RunEnd(args, first)),
          imperial |-> \E i \in 1..Len(args) : IsFlag(args[i])]

----------------------------------------------------------------------------
(* Presentation: display_weather_info, main.py 77-99 *)

Upper(c) == IF IsAscii(c) /\ Ord(c) \in 97..122 THEN Chr(Ord(c) - 32) ELSE c
Lower(c) == IF IsAscii(c) /\ Ord(c) \in 65..90 THEN Chr(Ord(c) + 32) ELSE c

\* str.capitalize(): first character upper case, the others lower case
capitalize(text) ==
    [i \in 1..Len(text) |-> IF i = 1 THEN Upper(text[i]) ELSE Lower(text[i])]

Spaces(n) == [i \in 1..n |-> " "]

\* f"{text:^{width}}"
Center(text, width) ==
    IF Len(text) >= width THEN text
    ELSE LET left == (width - Len(text)) \div 2
             right == (width - Len(text)) - left
         IN  Spaces(left) \o text \o Spaces(right)

Tab == "U+0009"
Newline == "U+000A"
Degree == "U+00B0"

\* a presenter that does not reset the colour before the temperature
DisplayWithoutSecondReset(out, document, imperial) ==
    LET params == _select_weather_display_params(document.id)
        o1 == change_color(out, REVERSE)
        o2 == o1 \o Center(document.name, PADDING)
        o3 == change_color(o2, RESET)
        o4 == change_color(o3, params[2])
        o5 == o4 \o <<Tab, params[1], " ">>
        o6 == o5 \o Center(capitalize(document.description), PADDING) \o <<" ">>
    IN  o6 \o <<"(">> \o IntStr(document.temp)
           \o <<Degree, IF imperial THEN "F" ELSE "C", ")", Newline>>

\* a presenter that always prints the Celsius suffix
DisplayAlwaysCelsius(out, document, imperial) ==
    LET params == _select_weather_display_params(document.id)
        o1 == change_color(out, REVERSE)
        o2 == o1 \o Center(document.name, PADDING)
        o3 == change_color(o2, RESET)
        o4 == change_color(o3, params[2])
        o5 == o4 \o <<Tab, params[1], " ">>
        o6 == o5 \o Center(capitalize(document.description), PADDING) \o <<" ">>
        o7 == change_color(o6, RESET)
    IN  o7 \o <<"(">> \o IntStr(document.temp) \o <<Degree, "C", ")", Newline>>

\* what display_weather_info writes to standard output, appended to out
display_weather_info(out, document, imperial) ==
    LET city == document.name
        weather_description == document.description
        temperature == document.temp
        o1 == change_color(out, REVERSE)
        o2 == o1 \o Center(city, PADDING)
        o3 == change_color(o2, RESET)
        params == _select_weather_display_params(document.id)
        o4 == change_color(o3, params[2])
        o5 == o4 \o <<Tab, params[1], " ">>
        o6 == o5 \o Center(capitalize(weather_description), PADDING) \o <<" ">>
        o7 == change_color(o6, RESET)
    IN  o7 \o <<"(">> \o IntStr(temperature)
           \o <<Degree, IF imperial THEN "F" ELSE "C", ")", Newline>>

----------------------------------------------------------------------------
(* The environment: arguments, secrets.ini, the server *)

CityWords == {<<"N", "e", "w">>, <<"Y", "o", "r", "k">>}
ArgTokens == CityWords \cup {FlagShort, FlagLong}

RECURSIVE SeqsUpTo(_, _)
\* the sequences over S of length at most n
SeqsUpTo(S, n) ==
    IF n = 0 THEN {<<>>}
    ELSE LET shorter == SeqsUpTo(S, n - 1)
         IN  shorter \cup {Append(q, x) : q \in shorter, x \in S}

ApiKey == <<"k", "3", "y">>
SecretStores == {<<>>, <<ApiKey>>}

\* HTTP statuses the server answers with; urlopen returns on 200 and
\* raises HTTPError on the others
ErrorStatuses == {400, 401, 404, 500}
Statuses == {200} \cup ErrorStatuses

\* a reply is an HTTP response, or none at all (DNS failure, refused
\* connection, timeout: urlopen raises URLError)
Replies == [received : {TRUE}, status : Statuses]
               \cup [received : {FALSE}, status : {0}]

NoResponse == [received |-> FALSE, status |-> 0]

\* what response.read() returns:
\*   "report"  a JSON object with name, weather[0].id, weather[0].description
\*             and main.temp
\*   "json"    a JSON document without those fields
\*   "text"    text that is not JSON
\*   "binary"  bytes that are not text in any encoding json.loads detects
SampleCodes == {200, 300, 450, 500, 600, 700, 800, 801, 900}
SampleNames == {<<"P", "a", "r", "i", "s">>}
SampleDescriptions == {<<"c", "l", "e", "a", "r", " ", "s", "k", "y">>,
                       <<"R", "a", "i", "N">>}
SampleTemps == {15, -3}

Bodies ==
    [kind : {"report"}, name : SampleNames, id : SampleCodes,
     description : SampleDescriptions, temp : SampleTemps]
    \cup [kind : {"json", "text", "binary"}, name : {<<>>}, id : {0},
          description : {<<>>}, temp : {0}]

NoData == [kind |-> "none", name |-> <<>>, id |-> 0, description |-> <<>>,
           temp |-> 0]

\* json.loads(data) on bytes: the outcome
json_loads(body) ==
    IF body.kind \in {"report", "json"} THEN "ok"
    ELSE IF body.kind = "text" THEN "JSONDecodeError"
    ELSE "UnicodeDecodeError"

\* messages on standard error
ExitMessage(text) == [kind |-> "exit", text |-> text]
Traceback(exception) == [kind |-> "traceback", text |-> <<exception>>]
UsageError == [kind |-> "usage", text |-> <<"usage: main.py [-h] [-i] city [city ...]">>]

MsgAccessDenied == <<"Access denied. Check your API key.">>
MsgNotFound == <<"Can't find weather data for this city.">>
MsgUnreadable == <<"Couldn't read the server response.">>
MsgWentWrong(code) == <<"Something went wrong... (">> \o IntStr(code) \o <<")">>

----------------------------------------------------------------------------
(* The program run: __main__, main.py 121-125 *)

Init ==
    /\ pc = "main"
    /\ argv \in SeqsUpTo(ArgTokens, MaxArgs)
    /\ secrets \in SecretStores
    /\ user_args = [city |-> <<>>, imperial |-> FALSE]
    /\ query_url = <<>>
    /\ requests = <<>>
    /\ response = NoResponse
    /\ replies = <<>>
    /\ data = NoData
    /\ weather_data = NoData
    /\ weather_id = 0
    /\ display_params = <<>>
    /\ stdout = <<>>
    /\ stderr = <<>>
    /\ exit_code = 0

\* the process ends with this status after writing message to stderr
Terminate(code, message) ==
    /\ pc' = "exited"
    /\ exit_code' = code
    /\ stderr' = Append(stderr, message)

\* line 122: user_args = read_user_cli_args()
ReadUserCliArgs ==
    /\ pc = "main"
    /\ LET parsed == ParseArgs(argv) IN
       \/ /\ parsed.ok
          /\ user_args' = [city |-> parsed.city, imperial |-> parsed.imperial]
          /\ pc' = "build"
          /\ UNCHANGED <<stderr, exit_code>>
       \/ /\ ~parsed.ok
          /\ Terminate(2, UsageError)
          /\ UNCHANGED user_args
    /\ UNCHANGED <<argv, secrets, query_url, requests, response, replies,
                   data, weather_data, weather_id, display_params, stdout>>

\* line 123: query_url = build_weather_query(user_args.city,
\* user_args.imperial); _get_api_key() raises KeyError without a key
BuildWeatherQuery ==
    /\ pc = "build"
    /\ \/ /\ secrets = <<>>
          /\ Terminate(1, Traceback("KeyError"))
          /\ UNCHANGED query_url
       \/ /\ secrets # <<>>
          /\ query_url' = build_weather_query(user_args.city,
                                              user_args.imperial, secrets[1])
          /\ pc' = "get"
          /\ UNCHANGED <<stderr, exit_code>>
    /\ UNCHANGED <<argv, secrets, user_args, requests, response, replies,
                   data, weather_data, weather_id, display_params, stdout>>

\* line 58: response = request.urlopen(query_url), outside any try
FirstUrlopen ==
    /\ pc = "get"
    /\ requests' = Append(requests, query_url)
    /\ \E reply \in Replies :
        /\ replies' = Append(replies, reply)
        /\ \/ /\ ~reply.received
              /\ Terminate(1, Traceback("URLError"))
              /\ UNCHANGED response
           \/ /\ reply.received
              /\ reply.status # 200
              /\ Terminate(1, Traceback("HTTPError"))
              /\ UNCHANGED response
           \/ /\ reply.received
              /\ reply.status = 200
              /\ response' = reply
              /\ pc' = "try"
              /\ UNCHANGED <<stderr, exit_code>>
    /\ UNCHANGED <<argv, secrets, user_args, query_url, data, weather_data,
                   weather_id, display_params, stdout>>

\* the handler of lines 62-68 with print() in place of sys.exit()
SecondUrlopenFallingThrough ==
    /\ pc = "try"
    /\ requests' = Append(requests, query_url)
    /\ \E reply \in Replies :
        /\ replies' = Append(replies, reply)
        /\ \/ /\ ~reply.received
              /\ Terminate(1, Traceback("URLError"))
              /\ UNCHANGED response
           \/ /\ reply.received
              /\ reply.status # 200
              /\ stderr' = Append(stderr, ExitMessage(
                     IF reply.status = 401 THEN MsgAccessDenied
                     ELSE IF reply.status = 404 THEN MsgNotFound
                     ELSE MsgWentWrong(reply.status)))
              /\ pc' = "read"
              /\ UNCHANGED <<response, exit_code>>
           \/ /\ reply.received
              /\ reply.status = 200
              /\ response' = reply
              /\ pc' = "read"
              /\ UNCHANGED <<stderr, exit_code>>
    /\ UNCHANGED <<argv, secrets, user_args, query_url, data, weather_data,
                   weather_id, display_params, stdout>>

\* lines 60-68: the second request.urlopen(query_url), inside the try
SecondUrlopen ==
    /\ pc = "try"
    /\ requests' = Append(requests, query_url)
    /\ \E reply \in Replies :
        /\ replies' = Append(replies, reply)
        /\ \/ /\ ~reply.received
              /\ Terminate(1, Traceback("URLError"))
              /\ UNCHANGED response
           \/ /\ reply.received
              /\ reply.status = 401
              /\ Terminate(1, ExitMessage(MsgAccessDenied))
              /\ UNCHANGED response
           \/ /\ reply.received
              /\ reply.status = 404
              /\ Terminate(1, ExitMessage(MsgNotFound))
              /\ UNCHANGED response
           \/ /\ reply.received
              /\ reply.status \notin {200, 401, 404}
              /\ Terminate(1, ExitMessage(MsgWentWrong(reply.status)))
              /\ UNCHANGED response
           \/ /\ reply.received
              /\ reply.status = 200
              /\ response' = reply
              /\ pc' = "read"
              /\ UNCHANGED <<stderr, exit_code>>
    /\ UNCHANGED <<argv, secrets, user_args, query_url, data, weather_data,
                   weather_id, display_params, stdout>>

\* lines 70-74: data = response.read(); return json.loads(data)
ReadAndDecode ==
    /\ pc = "read"
    /\ \E body \in Bodies :
        /\ data' = body
        /\ \/ /\ json_loads(body) = "ok"
              /\ weather_data' = body
              /\ pc' = "display"
              /\ UNCHANGED <<stderr, exit_code>>
           \/ /\ json_loads(body) = "JSONDecodeError"
              /\ Terminate(1, ExitMessage(MsgUnreadable))
              /\ UNCHANGED weather_data
           \/ /\ json_loads(body) = "UnicodeDecodeError"
              /\ Terminate(1, Traceback("UnicodeDecodeError"))
              /\ UNCHANGED weather_data
    /\ UNCHANGED <<argv, secrets, user_args, query_url, requests, response,
                   replies, weather_id, display_params, stdout>>

\* line 125: display_weather_info(weather_data, user_args.imperial), then
\* the end of the script; a document without the fields raises at 81-84
DisplayWeatherInfo ==
    /\ pc = "display"
    /\ \/ /\ weather_data.kind # "report"
          /\ Terminate(1, Traceback("KeyError"))
          /\ UNCHANGED <<weather_id, display_params, stdout>>
       \/ /\ weather_data.kind = "report"
          /\ weather_id' = weather_data.id
          /\ display_params' = _select_weather_display_params(weather_data.id)
          /\ stdout' = display_weather_info(stdout, weather_data,
                                            user_args.imperial)
          /\ pc' = "exited"
          /\ exit_code' = 0
          /\ UNCHANGED stderr
    /\ UNCHANGED <<argv, secrets, user_args, query_url, requests, response,
                   replies, data, weather_data>>

Next ==
    \/ ReadUserCliArgs
    \/ BuildWeatherQuery
    \/ FirstUrlopen
    \/ SecondUrlopen
    \/ ReadAndDecode
    \/ DisplayWeatherInfo

Spec == Init /\ [][Next]_vars

----------------------------------------------------------------------------
(* build_weather_query on its own, over every short list of city tokens *)

CityChars == {"a", " ", "U+00E3", "+", "&", "=", "%", "#"}
CityTokens == SeqsUpTo(CityChars, MaxTokLen)
CityLists == SeqsUpTo(CityTokens, MaxTokens) \ {<<>>}

InitBuild ==
    /\ pc = "build"
    /\ argv = <<>>
    /\ secrets \in SecretStores
    /\ user_args \in [city : CityLists, imperial : BOOLEAN]
    /\ query_url = <<>>
    /\ requests = <<>>
    /\ response = NoResponse
    /\ replies = <<>>
    /\ data = NoData
    /\ weather_data = NoData
    /\ weather_id = 0
    /\ display_params = <<>>
    /\ stdout = <<>>
    /\ stderr = <<>>
    /\ exit_code = 0

NextBuild == BuildWeatherQuery

SpecBuild == InitBuild /\ [][NextBuild]_vars

----------------------------------------------------------------------------
(* _select_weather_display_params on its own, over every code *)

InitSelect ==
    /\ pc = "select"
    /\ argv = <<>>
    /\ secrets = <<>>
    /\ user_args = [city |-> <<>>, imperial |-> FALSE]
    /\ query_url = <<>>
    /\ requests = <<>>
    /\ response = NoResponse
    /\ replies = <<>>
    /\ data = NoData
    /\ weather_data = NoData
    /\ weather_id \in (0 - MaxCode)..MaxCode
    /\ display_params = <<>>
    /\ stdout = <<>>
    /\ stderr = <<>>
    /\ exit_code = 0

\* line 90: weather_symbol, color = _select_weather_display_params(weather_id)
SelectWeatherDisplayParams ==
    /\ pc = "select"
    /\ display_params' = _select_weather_display_params(weather_id)
    /\ pc' = "selected"
    /\ UNCHANGED <<argv, secrets, user_args, query_url, requests, response,
                   replies, data, weather_data, weather_id, stdout, stderr,
                   exit_code>>

NextSelect == SelectWeatherDisplayParams

SpecSelect == InitSelect /\ [][NextSelect]_vars

----------------------------------------------------------------------------
(* Properties *)

Last(q) == q[Len(q)]

\* the message the specification assigns to an HTTP error status
MessageFor(status) ==
    IF status = 401 THEN MsgAccessDenied
    ELSE IF status = 404 THEN MsgNotFound
    ELSE MsgWentWrong(status)

IsHttpError(reply) == reply.received /\ reply.status # 200

\* C1: every run sends at most one HTTP GET, and exactly one once the
\* Weather Fetcher has been reached (the run is past line 58).
C1_ExactlyOneRequest ==
    /\ Len(requests) <= 1
    /\ (pc \in {"try", "read", "display"} \/ replies # <<>>)
           => Len(requests) = 1

\* C2: whenever the server answers a request with an HTTP error status s,
\* the process ends with a non-zero exit code and exactly the message for s:
\* the fixed texts for 401 and 404, "Something went wrong... (s)" otherwise.
C2_HttpErrorMessage ==
    \A i \in 1..Len(replies) :
        IsHttpError(replies[i]) =>
            /\ pc = "exited"
            /\ exit_code # 0
            /\ stderr = <<ExitMessage(MessageFor(replies[i].status))>>

\* C3: every error outcome is terminal.  After an HTTP error status the
\* body is never read or decoded and no further request is sent; after an
\* HTTP error or an undecodable body nothing is written to standard output
\* and exactly one error message is reported before the process ends.
C3_ErrorsAreTerminal ==
    /\ \A i \in 1..Len(replies) :
          IsHttpError(replies[i]) =>
              /\ pc = "exited"
              /\ exit_code # 0
              /\ i = Len(replies)
              /\ Len(requests) = i
              /\ data = NoData
              /\ weather_data = NoData
              /\ stdout = <<>>
              /\ Len(stderr) = 1
    /\ data.kind \in {"text", "binary"} =>
          /\ pc = "exited"
          /\ exit_code # 0
          /\ Len(requests) = Len(replies)
          /\ weather_data = NoData
          /\ stdout = <<>>
          /\ Len(stderr) = 1

\* a run that ended on HTTP 401 answered to the guarded request
C3_Witness ==
    /\ pc = "exited"
    /\ Len(replies) = 2
    /\ replies[2] = [received |-> TRUE, status |-> 401]
    /\ stderr = <<ExitMessage(MsgAccessDenied)>>

\* C4: after HTTP 200 a body that is not valid JSON ends the process with
\* "Couldn't read the server response." and a non-zero exit code, with no
\* further request and no Presenter output; a valid JSON body is returned
\* as the decoded document and the process goes on.
C4_DecodeFailure ==
    /\ data.kind \in {"text", "binary"} =>
          /\ pc = "exited"
          /\ exit_code # 0
          /\ stderr = <<ExitMessage(MsgUnreadable)>>
          /\ stdout = <<>>
          /\ Len(requests) = Len(replies)
    /\ data.kind \in {"report", "json"} =>
          /\ weather_data = data
          /\ ExitMessage(MsgUnreadable) \notin {stderr[i] : i \in 1..Len(stderr)}

\* the display bucket the specification's table assigns to a code
ExpectedParams(id) ==
    IF 200 <= id /\ id < 300 THEN <<"U+1F4A5", RED>>
    ELSE IF 300 <= id /\ id < 400 THEN <<"U+1F4A7", CYAN>>
    ELSE IF 500 <= id /\ id < 600 THEN <<"U+1F4A6", BLUE>>
    ELSE IF 600 <= id /\ id < 700 THEN <<"U+26C4", WHITE>>
    ELSE IF 700 <= id /\ id < 800 THEN <<"U+1F300", BLUE>>
    ELSE IF id = 800 THEN <<"U+1F506", YELLOW>>
    ELSE IF 801 <= id /\ id < 900 THEN <<"U+1F4A8", WHITE>>
    ELSE <<"U+1F308", RESET>>

KnownRanges ==
    <<THUNDERSTORM, DRIZZLE, RAIN, SNOW, ATMOSPHERE, CLEAR, CLOUDY>>

\* C5: _select_weather_display_params maps every integer code to the bucket
\* of the table (the fallback for every code outside the seven ranges), each
\* code lies in at most one of the seven ranges, and the ranges are pairwise
\* disjoint.
C5_SelectIsTotalAndExclusive ==
    pc = "selected" =>
        /\ display_params = ExpectedParams(weather_id)
        /\ Cardinality({b \in 1..7 : weather_id \in KnownRanges[b]}) <= 1
        /\ (display_params = <<"U+1F308", RESET>>)
              <=> (\A b \in 1..7 : weather_id \notin KnownRanges[b])
        /\ \A a, b \in 1..7 :
              a # b => KnownRanges[a] \cap KnownRanges[b] = {}

\* code 800 was put in the Clear bucket
C5_Witness ==
    /\ pc = "selected"
    /\ weather_id = 800
    /\ display_params = <<"U+1F506", YELLOW>>

IsStyle(c) == c \in StyleCodes

\* the positions of the style changes in what was written
StylePositions(out) ==
    SelectSeq([i \in 1..Len(out) |-> i], LAMBDA i : IsStyle(out[i]))

\* what was written without the style changes
Visible(out) == SelectSeq(out, LAMBDA c : ~IsStyle(c))

CityBand == Center(weather_data.name, PADDING)
SymbolAndDescription ==
    <<Tab, ExpectedParams(weather_data.id)[1], " ">>
        \o Center(capitalize(weather_data.description), PADDING) \o <<" ">>
TemperatureText(suffix) ==
    <<"(">> \o IntStr(weather_data.temp) \o <<Degree, suffix, ")", Newline>>

\* C6: in what display_weather_info writes, the city band stands between
\* REVERSE and a RESET, the colour is set right after that RESET, symbol and
\* description stand between the bucket colour and a second RESET, and the
\* temperature follows that RESET, which is the last style change.
C6_StyleResetAfterEachSegment ==
    (pc = "exited" /\ exit_code = 0) =>
        LET at == StylePositions(stdout) IN
        /\ Len(at) = 4
        /\ at[1] = 1
        /\ stdout[at[1]] = REVERSE
        /\ SubSeq(stdout, at[1] + 1, at[2] - 1) = CityBand
        /\ stdout[at[2]] = RESET
        /\ at[3] = at[2] + 1
        /\ stdout[at[3]] = ExpectedParams(weather_data.id)[2]
        /\ SubSeq(stdout, at[3] + 1, at[4] - 1) = SymbolAndDescription
        /\ stdout[at[4]] = RESET
        /\ at[4] < Len(stdout)
        /\ Head(SubSeq(stdout, at[4] + 1, Len(stdout))) = "("
        /\ Last(stdout) = Newline

\* a summary for a code of the fallback bucket has been written
C6_Witness ==
    /\ pc = "exited"
    /\ exit_code = 0
    /\ weather_data.id = 450
    /\ Len(stdout) > 4

Str_q == <<"q">>
Str_units == <<"u", "n", "i", "t", "s">>
Str_appid == <<"a", "p", "p", "i", "d">>

\* C7: build_weather_query returns the base endpoint, "?", and exactly the
\* three fields q, units, appid in this order, separated by "&"; q is the
\* quote_plus encoding of the tokens joined by single spaces and has no
\* space in it, units follows the flag, appid is the key of the store.
C7_QueryUrlShape ==
    pc = "get" =>
        LET n == Len(BASE_WEATHER_API_URL)
            fields == SplitOn(SubSeq(query_url, n + 2, Len(query_url)), "&")
        IN  /\ SubSeq(query_url, 1, n) = BASE_WEATHER_API_URL
            /\ query_url[n + 1] = "?"
            /\ Len(fields) = 3
            /\ Before(fields[1], "=") = Str_q
            /\ After(fields[1], "=") = quote_plus(JoinSpace(user_args.city))
            /\ ~HasChar(fields[1], " ")
            /\ fields[2] = Str_units \o <<"=">>
                   \o (IF user_args.imperial THEN Imperial ELSE Metric)
            /\ fields[3] = Str_appid \o <<"=">> \o secrets[1]

\* a URL was built for two tokens with the imperial flag set
C7_Witness ==
    /\ pc = "get"
    /\ user_args.city = <<<<"a">>, <<"a">>>>
    /\ user_args.imperial
    /\ HasChar(query_url, "+")

\* C8: decoding the query string of the URL that build_weather_query built
\* gives back q = the tokens joined by single spaces, whatever characters
\* they hold, with units and appid untouched and the endpoint unchanged.
C8_CityRoundTrip ==
    pc = "get" =>
        /\ EndpointOf(query_url) = BASE_WEATHER_API_URL
        /\ parse_qsl(QueryOf(query_url)) =
              << <<Str_q, JoinSpace(user_args.city)>>,
                 <<Str_units,
                   IF user_args.imperial THEN Imperial ELSE Metric>>,
                 <<Str_appid, secrets[1]>> >>

\* a URL was built for a city holding a non-ASCII letter and an ampersand
C8_Witness ==
    /\ pc = "get"
    /\ user_args.city = <<<<"U+00E3">>, <<"&">>>>

\* the units field of the request that was sent
RequestedUnits == parse_qsl(QueryOf(requests[1]))[2][2]

\* C9: when both GETs got 200 and the body holds the report fields, the run
\* ends with exit code 0, nothing on standard error, and one line on
\* standard output: city name, symbol of the code's bucket, capitalised
\* description, "(" temperature degree-sign suffix ")", with suffix F when
\* the imperial flag is set and C otherwise, as in the units of the request.
C9_SuccessSummary ==
    (pc = "exited" /\ data.kind = "report") =>
        /\ exit_code = 0
        /\ stderr = <<>>
        /\ user_args.imperial <=> (RequestedUnits = Imperial)
        /\ ~user_args.imperial <=> (RequestedUnits = Metric)
        /\ Visible(stdout) =
              CityBand \o SymbolAndDescription
                  \o TemperatureText(IF RequestedUnits = Imperial
                                     THEN "F" ELSE "C")

\* a summary in imperial units for a description with capitals inside
C9_Witness ==
    /\ pc = "exited"
    /\ exit_code = 0
    /\ user_args.imperial
    /\ weather_data.description = <<"R", "a", "i", "N">>
    /\ stdout # <<>>

\* the city tokens and the flag the command line holds
GivenCity == SelectSeq(argv, LAMBDA a : ~IsFlag(a))
GivenFlag == \E i \in 1..Len(argv) : IsFlag(argv[i])

\* C10: without a city token the run ends with the usage error and exit
\* code 2 before the key is read and before any request; with at least one
\* city token the flag is set exactly when -i or --imperial is among the
\* arguments and the tokens are passed on unchanged and in order.
C10_ArgumentReader ==
    pc # "main" =>
        /\ GivenCity = <<>> =>
              /\ pc = "exited"
              /\ exit_code = 2
              /\ stderr = <<UsageError>>
              /\ query_url = <<>>
              /\ requests = <<>>
        /\ GivenCity # <<>> =>
              user_args = [city |-> GivenCity, imperial |-> GivenFlag]

=============================================================================
